---------------------------- MODULE Spec2Model ----------------------------
(***************************************************************************)
(* KrishiSutra: the agent orchestration and routing layer of app.py (the   *)
(* Gradio entry point) and of main_app.py (the Streamlit entry point):     *)
(* startup, the domain classifiers, the agent cache, the query handlers    *)
(* and the conversation.                                                   *)
(*                                                                         *)
(* Text is modelled as a sequence: a query is a sequence of one-character  *)
(* strings (the classifier lower-cases it and matches substrings), an      *)
(* answer or a message is a sequence of tokens (a fixed marker such as     *)
(* "X Error: " is one token).  A Python value that may be None is a tagged *)
(* record: None, or Str(s).  The source's emoji labels are written in      *)
(* ASCII ("Climate Agent" for the climate label, "X" and "W" for the       *)
(* cross and warning signs).                                               *)
(***************************************************************************)
EXTENDS Naturals, Sequences, FiniteSets, TLC

VARIABLES
    agent_cache,    \* app.py:40   cache key -> agent instance
    chat_history,   \* the Chatbot component's value: sequence of <<query, answer>>
    fs,             \* the data/ directory: staged path -> content
    consumed,       \* uploaded file objects whose read() already reached EOF
    builds,         \* history: cache key -> number of builder invocations
    last,           \* history: what the last handler invocation did
    DATA_GOV_API_KEY, \* app.py:23
    cq,             \* classifier harness: the query text
    cres,           \* classifier harness: results of the two classifiers
    LLM_PROVIDER,   \* app.py:24, main_app.py:25
    GEMINI_API_KEY, \* app.py:25, main_app.py:26
    entry,          \* the script that runs: "app" (app.py) or "main" (main_app.py)
    status,         \* "starting", then "serving", or "halted" by an exception at import
    threads         \* concurrent get_agent calls: thread -> its position and locals

vars == <<agent_cache, chat_history, fs, consumed, builds, last,
          DATA_GOV_API_KEY, cq, cres, LLM_PROVIDER, GEMINI_API_KEY, entry,
          status, threads>>

\* the configuration, the process's state and the worker threads
env == <<LLM_PROVIDER, GEMINI_API_KEY, entry, status, threads>>

-----------------------------------------------------------------------------
(* Bounds *)

\* longest conversation explored
MaxTurns == 2
\* most builder invocations explored
MaxBuilds == 2
\* most fragments concatenated into a classifier query
MaxFrags == 2
\* most get_agent calls in flight at once
MaxThreads == 2

-----------------------------------------------------------------------------
(* Python values *)

None == [t |-> "None"]
\* a string held as a sequence (of characters, or of tokens)
Str(s) == [t |-> "str", v |-> s]
\* an agent identifier (one of the dropdown's labels)
Label(a) == [t |-> "label", v |-> a]
\* a falsy object that is not None (an empty container)
Empty == [t |-> "Empty"]

\* bool(x): None, "" and an empty object are falsy, an agent instance is truthy
Truthy(x) ==
    CASE x.t = "str" -> Len(x.v) > 0
      [] x.t = "label" -> x.v # ""
      [] x.t = "agent" -> TRUE
      [] OTHER -> FALSE

-----------------------------------------------------------------------------
(* Agent identifiers: the dropdown's choices, app.py:181 *)

AutoDetect == "Auto Detect"
ClimateAgent == "Climate Agent"
AgricultureAgent == "Agriculture Agent"
SchemeAgent == "Scheme Agent"
KCCAgent == "KCC Agent"

ConcreteAgents == {ClimateAgent, AgricultureAgent, SchemeAgent, KCCAgent}
Choices == {AutoDetect} \cup ConcreteAgents

-----------------------------------------------------------------------------
(* Domain classifier *)

UpperToLower ==
    [c \in {"A","B","C","D","E","F","G","H","I","J","K","L","M","N","O","P",
            "Q","R","S","T","U","V","W","X","Y","Z"} |->
       CASE c = "A" -> "a" [] c = "B" -> "b" [] c = "C" -> "c" [] c = "D" -> "d"
         [] c = "E" -> "e" [] c = "F" -> "f" [] c = "G" -> "g" [] c = "H" -> "h"
         [] c = "I" -> "i" [] c = "J" -> "j" [] c = "K" -> "k" [] c = "L" -> "l"
         [] c = "M" -> "m" [] c = "N" -> "n" [] c = "O" -> "o" [] c = "P" -> "p"
         [] c = "Q" -> "q" [] c = "R" -> "r" [] c = "S" -> "s" [] c = "T" -> "t"
         [] c = "U" -> "u" [] c = "V" -> "v" [] c = "W" -> "w" [] c = "X" -> "x"
         [] c = "Y" -> "y" [] c = "Z" -> "z"]

\* str.lower()
lower(s) ==
    [i \in 1..Len(s) |-> IF s[i] \in DOMAIN UpperToLower THEN UpperToLower[s[i]] ELSE s[i]]

\* word in query
Contains(query, word) ==
    \E i \in 0..(Len(query) - Len(word)) :
        SubSeq(query, i + 1, i + Len(word)) = word

\* any(word in query for word in words)
AnyIn(query, words) == \E w \in words : Contains(query, w)

ClimateWords ==
    { <<"r","a","i","n">>,
      <<"t","e","m","p","e","r","a","t","u","r","e">>,
      <<"c","l","i","m","a","t","e">>,
      <<"w","e","a","t","h","e","r">> }

AgricultureWords ==
    { <<"c","r","o","p">>,
      <<"y","i","e","l","d">>,
      <<"p","r","i","c","e">>,
      <<"p","r","o","d","u","c","t","i","o","n">>,
      <<"a","g","r","i","c","u","l","t","u","r","e">> }

SchemeWords ==
    { <<"s","c","h","e","m","e">>,
      <<"p","m","k","i","s","a","n">>,
      <<"s","u","b","s","i","d","y">>,
      <<"b","e","n","e","f","i","c","i","a","r","y">> }

HelplineWords ==
    { <<"k","c","c">>,
      <<"h","e","l","p","l","i","n","e">>,
      <<"c","a","l","l"," ","c","e","n","t","r","e">> }

\* no fallback: None when nothing matches
auto_select_agent_NoFallback(user_query) ==
    LET query == lower(user_query) IN
    IF AnyIn(query, ClimateWords) THEN Label(ClimateAgent)
    ELSE IF AnyIn(query, AgricultureWords) THEN Label(AgricultureAgent)
    ELSE IF AnyIn(query, SchemeWords) THEN Label(SchemeAgent)
    ELSE IF AnyIn(query, HelplineWords) THEN Label(KCCAgent)
    ELSE None

\* the helpline keywords are tested first
auto_select_agent_HelplineFirst(user_query) ==
    LET query == lower(user_query) IN
    IF AnyIn(query, HelplineWords) THEN Label(KCCAgent)
    ELSE IF AnyIn(query, ClimateWords) THEN Label(ClimateAgent)
    ELSE IF AnyIn(query, AgricultureWords) THEN Label(AgricultureAgent)
    ELSE IF AnyIn(query, SchemeWords) THEN Label(SchemeAgent)
    ELSE Label(AgricultureAgent)

\* app.py: the classifier with the Agriculture fallback
auto_select_agent(user_query) ==
    LET query == lower(user_query) IN
    IF AnyIn(query, ClimateWords) THEN Label(ClimateAgent)
    ELSE IF AnyIn(query, AgricultureWords) THEN Label(AgricultureAgent)
    ELSE IF AnyIn(query, SchemeWords) THEN Label(SchemeAgent)
    ELSE IF AnyIn(query, HelplineWords) THEN Label(KCCAgent)
    ELSE Label(AgricultureAgent)

\* main_app.py: the classifier that returns None when nothing matches
main_auto_select_agent(user_query) ==
    LET query == lower(user_query) IN
    IF AnyIn(query, ClimateWords) THEN Label(ClimateAgent)
    ELSE IF AnyIn(query, AgricultureWords) THEN Label(AgricultureAgent)
    ELSE IF AnyIn(query, SchemeWords) THEN Label(SchemeAgent)
    ELSE IF AnyIn(query, HelplineWords) THEN Label(KCCAgent)
    ELSE None

-----------------------------------------------------------------------------
(* Classifier harness: query texts built from fragments in mixed case *)

Fragments ==
    { <<"R","a","i","n">>,
      <<"C","R","O","P">>,
      <<"s","c","h","e","m","e">>,
      <<"K","c","c">>,
      <<"C","a","l","l"," ">>,
      <<"c","e","n","t","r","e">>,
      <<"h","e","l","p","L","i","n","e">>,
      <<"h","i">>,
      <<" ">> }

RECURSIVE Concats(_)
Concats(n) ==
    IF n = 0 THEN { <<>> }
    ELSE LET shorter == Concats(n - 1) IN
         shorter \cup { s \o f : s \in shorter, f \in Fragments }

ClassifierQueries == Concats(MaxFrags)

NotClassified == [app |-> Label("-"), main |-> Label("-"), done |-> FALSE]

-----------------------------------------------------------------------------
(* Paths, uploaded files and the data/ directory *)

\* the directory that holds the file, in place of the file's name
basename_Parent(name) == IF Len(name) < 2 THEN "" ELSE name[Len(name) - 1]

\* os.path.basename of a path held as its sequence of components
basename(name) == IF Len(name) = 0 THEN "" ELSE name[Len(name)]

\* f"data/{...}"
DataPath(file) == <<"data", file>>

\* the bundled dataset each builder falls back to, app.py:59-63
DefaultDataset(agent_choice) ==
    CASE agent_choice = ClimateAgent -> DataPath("Mean_Temp_IMD_2017.csv")
      [] agent_choice = AgricultureAgent ->
            DataPath("Current Daily Price of Various Commodities from Various Markets (Mandi).csv")
      [] agent_choice = SchemeAgent -> DataPath("GetPMKisanDatagov.json")

\* the file objects the File component can hand to the handler: two distinct
\* uploads that share a basename
Uploads ==
    { [id |-> 1, name |-> <<"tmp", "u1", "a.csv">>, content |-> "rows1"],
      [id |-> 2, name |-> <<"tmp", "u2", "a.csv">>, content |-> "rows2"] }

NoFile == [t |-> "None"]
File(u) == [t |-> "file", id |-> u.id, name |-> u.name, content |-> u.content]
UploadedFiles == {NoFile} \cup { File(u) : u \in Uploads }

\* uploaded_file.read(): the rest of the file, which is nothing once it was read
read(uploaded_file) ==
    IF uploaded_file.id \in consumed THEN "" ELSE uploaded_file.content

\* what a builder finds at a dataset path: a staged file, else a bundled one
Dataset(files, path) == IF path \in DOMAIN files THEN files[path] ELSE "bundled"

\* f"{agent_choice}_{temp_path or 'default'}": the pair is written as a pair; the
\* formatted strings of two pairs differ whenever the pairs do, for the labels of
\* the dropdown and the paths under data/
CacheKey(agent_choice, temp_path) ==
    <<agent_choice, IF temp_path = None THEN <<"default">> ELSE temp_path.v>>

CacheKeys ==
    { <<a, p>> : a \in Choices,
                 p \in {<<"default">>} \cup { DataPath(basename(u.name)) : u \in Uploads } }

TotalBuilds(b) ==
    LET RECURSIVE Sum(_)
        Sum(S) == IF S = {} THEN 0
                  ELSE LET k == CHOOSE k \in S : TRUE IN b[k] + Sum(S \ {k})
    IN Sum(DOMAIN b)

-----------------------------------------------------------------------------
(* What the external collaborators may do *)

\* a builder: raises, returns None, returns an empty object, or returns an agent
\* that exposes some of the two capabilities
Capabilities == {"retrieve_context", "run"}
BuildOutcomes ==
    { [k |-> "raise", caps |-> {}], [k |-> "None", caps |-> {}],
      [k |-> "Empty", caps |-> {}] }
    \cup { [k |-> "agent", caps |-> c] : c \in SUBSET Capabilities }

\* str(e) of an exception: possibly the empty string
Messages == { <<>>, <<"boom">> }
Contexts == { <<"ctx1">>, <<"ctx2">> }

\* a capability call: returns a context, or raises
CapOutcomes ==
    { [k |-> "return", v |-> c] : c \in Contexts }
    \cup { [k |-> "raise", v |-> m] : m \in Messages }

\* the generation service: response.text is None, "" or a text; or the call raises
GenOutcomes ==
    { [k |-> "return", text |-> x] : x \in {None, Str(<<>>), Str(<<"answer">>)} }
    \cup { [k |-> "raise", text |-> Str(m)] : m \in Messages }

-----------------------------------------------------------------------------
(* Agent cache, app.py:40-72 *)

\* f"{agent_choice}": the label, or "None" for None
Format(x) == IF x.t = "label" THEN x.v ELSE x.t

FileBacked == {ClimateAgent, AgricultureAgent, SchemeAgent}

\* the object a builder returns when it does not raise: None, an empty object, or
\* a new agent instance (a new identity) over the data it was given
BuiltAgent(choice, arg, files, bo) ==
    CASE bo.k = "None" -> None
      [] bo.k = "Empty" -> Empty
      [] OTHER -> [t |-> "agent",
                   id |-> TotalBuilds(builds) + 1,
                   builder |-> choice,
                   arg |-> arg,
                   data |-> IF choice = KCCAgent THEN "api" ELSE Dataset(files, arg),
                   caps |-> bo.caps]

\* temp_path after lines 44-48: None, or data/<basename of the upload>
TempPath(uploaded_file) ==
    IF uploaded_file.t = "file"
    THEN Str(DataPath(basename(uploaded_file.name))) ELSE None

\* the data/ directory after lines 47-51: the upload's unread rest is written to
\* temp_path, replacing what was there
Staged(uploaded_file, temp_path) ==
    IF uploaded_file.t = "file"
    THEN [p \in DOMAIN fs \cup {temp_path.v} |->
            IF p = temp_path.v THEN read(uploaded_file) ELSE fs[p]]
    ELSE fs

\* the read positions after line 51
Consumed(uploaded_file) ==
    IF uploaded_file.t = "file" THEN consumed \cup {uploaded_file.id} ELSE consumed

\* the builder is called before the cache is looked up
Invoked_BeforeLookup(choice, cache_key) ==
    \/ choice \in FileBacked
    \/ choice = KCCAgent /\ Truthy(DATA_GOV_API_KEY)

\* the KCC builder is called without looking at the key
Invoked_NoKeyCheck(choice, cache_key) ==
    /\ cache_key \notin DOMAIN agent_cache
    /\ choice \in FileBacked \cup {KCCAgent}

\* whether lines 58-67 call a builder: only on a miss, for a known label, and for
\* the KCC agent only with the data.gov key
Invoked(choice, cache_key) ==
    /\ cache_key \notin DOMAIN agent_cache
    /\ \/ choice \in FileBacked
       \/ choice = KCCAgent /\ Truthy(DATA_GOV_API_KEY)

\* the builder's argument: temp_path or the bundled dataset; the key for KCC
BuilderArg(choice, temp_path) ==
    IF choice \in FileBacked
    THEN (IF temp_path = None THEN DefaultDataset(choice) ELSE temp_path.v)
    ELSE IF choice = KCCAgent /\ Truthy(DATA_GOV_API_KEY)
         THEN DATA_GOV_API_KEY.v ELSE <<>>

\* lines 55-67: the cached instance, else what the builder returns, else None
Resolve(choice, cache_key, invoked, arg, files, bo) ==
    IF cache_key \in DOMAIN agent_cache THEN agent_cache[cache_key]
    ELSE IF invoked /\ bo.k # "raise" THEN BuiltAgent(choice, arg, files, bo)
    ELSE None

\* "if agent is not None" in place of "if agent"
Store_NotNone(cache_key, agent) ==
    IF agent # None
    THEN [k \in DOMAIN agent_cache \cup {cache_key} |->
            IF k = cache_key THEN agent ELSE agent_cache[k]]
    ELSE agent_cache

\* lines 69-70: a truthy agent is stored under the key
Store(cache_key, agent) ==
    IF Truthy(agent)
    THEN [k \in DOMAIN agent_cache \cup {cache_key} |->
            IF k = cache_key THEN agent ELSE agent_cache[k]]
    ELSE agent_cache

\* lines 53-72 once the upload is staged (staged: the upload's identity, 0 for
\* no upload)
Lookup(choice, cache_key, invoked, agent, raised, staged, files, read_to) ==
    [raised |-> raised, agent |-> agent, key |-> cache_key, upload |-> staged,
     hit |-> cache_key \in DOMAIN agent_cache,
     invoked |-> invoked, builder |-> IF invoked THEN choice ELSE "-",
     agent_cache |-> IF raised THEN agent_cache ELSE Store(cache_key, agent),
     fs |-> files, consumed |-> read_to,
     builds |-> IF invoked THEN [builds EXCEPT ![cache_key] = @ + 1] ELSE builds,
     steps |-> (IF staged # 0 THEN <<"stage">> ELSE <<>>) \o <<"lookup">>
               \o (IF invoked THEN <<"build">> ELSE <<>>)
               \o (IF ~raised /\ cache_key \notin DOMAIN agent_cache /\ Truthy(agent)
                   THEN <<"store">> ELSE <<>>)]

Built(choice, temp_path, cache_key, invoked, files, uploaded_file, bo) ==
    Lookup(choice, cache_key, invoked,
           Resolve(choice, cache_key, invoked, BuilderArg(choice, temp_path), files, bo),
           invoked /\ bo.k = "raise",
           IF uploaded_file.t = "file" THEN uploaded_file.id ELSE 0,
           files, Consumed(uploaded_file))

Keyed(choice, temp_path, uploaded_file, bo) ==
    Built(choice, temp_path, CacheKey(choice, temp_path),
          Invoked(choice, CacheKey(choice, temp_path)),
          Staged(uploaded_file, temp_path), uploaded_file, bo)

\* get_agent(agent_choice, uploaded_file), with what the builder does (bo) if it is
\* invoked.  The result holds the new cache, data/ directory, read positions and
\* build counts, the agent returned (or raised: the builder's exception leaves
\* get_agent), and the steps taken, in order.
get_agent(agent_choice, uploaded_file, bo) ==
    Keyed(Format(agent_choice), TempPath(uploaded_file), uploaded_file, bo)

-----------------------------------------------------------------------------
(* Answer synthesis, app.py:95-114 *)

NoResponse == <<"W No response generated.">>
ErrorMarker == "X Error: "

\* the except branch returns str(e) without the marker
gemini_answer_Unmarked(prompt, context, go) ==
    IF go.k = "raise" THEN go.text.v
    ELSE IF Truthy(go.text) THEN go.text.v
    ELSE NoResponse

\* the fixed message replaces None only, not ""
gemini_answer_NoneOnly(prompt, context, go) ==
    IF go.k = "raise" THEN <<ErrorMarker>> \o go.text.v
    ELSE IF go.text # None THEN go.text.v
    ELSE NoResponse

\* gemini_answer(prompt, context), with what the generation service does (go):
\* response.text or the fixed message, or the marker followed by str(e)
gemini_answer(prompt, context, go) ==
    IF go.k = "raise" THEN <<ErrorMarker>> \o go.text.v
    ELSE IF Truthy(go.text) THEN go.text.v
    ELSE NoResponse

-----------------------------------------------------------------------------
(* Chat handler, app.py:120-156 *)

Whitespace == {" "}

\* str.strip()
RECURSIVE strip(_)
strip(s) ==
    IF Len(s) = 0 THEN s
    ELSE IF s[1] \in Whitespace THEN strip(Tail(s))
    ELSE IF s[Len(s)] \in Whitespace THEN strip(SubSeq(s, 1, Len(s) - 1))
    ELSE s

\* the record of one handler invocation
NoCall ==
    [op |-> "none", query |-> None,
     selected |-> None, key |-> <<>>, hit |-> FALSE, builder |-> "-",
     buildOut |-> "-", agent |-> None, cap |-> "-", capOut |-> None,
     genCalls |-> 0, genCtx |-> None, genOut |-> None, answer |-> None, outcome |-> "-", steps |-> <<>>,
     dropped |-> 0, upload |-> 0, choice |-> "-"]

FailedToInitialize == "X Failed to initialize "
ErrorRetrieving == "X Error retrieving context: "

\* only None and the empty string are taken for no query
IsBlank_EmptyOnly(user_query) == ~Truthy(user_query)

\* line 123: not user_query or user_query.strip() == ""
IsBlank(user_query) == ~Truthy(user_query) \/ strip(user_query.v) = <<>>

\* the dropdown's value is passed on as it is
SelectAgent_Unresolved(user_query, agent_choice) ==
    Label(agent_choice)

\* lines 127-129
SelectAgent(user_query, agent_choice) ==
    IF agent_choice = AutoDetect THEN auto_select_agent(user_query.v)
    ELSE Label(agent_choice)

\* run is preferred when the agent has it
Capability_RunFirst(qa_agent) ==
    IF "run" \in qa_agent.caps THEN "run" ELSE "retrieve_context"

\* lines 141-144: retrieve_context if the agent has it, else run
Capability(qa_agent) ==
    IF "retrieve_context" \in qa_agent.caps THEN "retrieve_context" ELSE "run"

\* what the capability call does: co, or AttributeError when the agent lacks it
CapabilityCall(qa_agent, co) ==
    IF Capability(qa_agent) \in qa_agent.caps THEN co
    ELSE [k |-> "raise", v |-> <<"object has no attribute ", Capability(qa_agent)>>]

\* the new turn is put in front of the conversation
Effects_Prepend(g, turns, call) ==
    [chat_history |-> turns \o chat_history, agent_cache |-> g.agent_cache,
     fs |-> g.fs, consumed |-> g.consumed, builds |-> g.builds,
     last |-> [call EXCEPT !.steps = @ \o (IF turns = <<>> THEN <<>> ELSE <<"append">>),
                           !.answer = IF turns = <<>> THEN None ELSE Str(turns[1][2])]]

\* the handler's effects: what get_agent did (g), the turn appended (if any), and
\* the record of the call
Effects(g, turns, call) ==
    [chat_history |-> chat_history \o turns, agent_cache |-> g.agent_cache,
     fs |-> g.fs, consumed |-> g.consumed, builds |-> g.builds,
     last |-> [call EXCEPT !.steps = @ \o (IF turns = <<>> THEN <<>> ELSE <<"append">>),
                           !.answer = IF turns = <<>> THEN None ELSE Str(turns[1][2])]]

\* lines 123-124: nothing happens
Ignored(call) ==
    [chat_history |-> chat_history, agent_cache |-> agent_cache, fs |-> fs,
     consumed |-> consumed, builds |-> builds,
     last |-> [call EXCEPT !.outcome = "returned"]]

\* lines 150-156
Synthesize(user_query, g, out, go, call) ==
    Effects(g, << <<user_query.v, gemini_answer(user_query.v, out.v, go)>> >>,
            [call EXCEPT !.genCalls = 1, !.genCtx = Str(out.v), !.genOut = go,
                         !.outcome = "returned", !.steps = @ \o <<"generate">>])

\* no try/except around the capability call: its exception leaves the handler
Retrieve_Uncaught(user_query, g, out, go, call) ==
    IF out.k = "raise"
    THEN Effects(g, <<>>, [call EXCEPT !.outcome = "raised"])
    ELSE Synthesize(user_query, g, out, go, call)

\* the answer is generated from whatever the capability call gave, its
\* exception's message included
Retrieve_GenerateAnyway(user_query, g, out, go, call) ==
    Synthesize(user_query, g, out, go, call)

\* lines 139-156
Retrieve(user_query, g, out, go, call) ==
    IF out.k = "raise"
    THEN Effects(g, << <<user_query.v, <<ErrorRetrieving>> \o out.v>> >>,
                 [call EXCEPT !.outcome = "returned"])
    ELSE Synthesize(user_query, g, out, go, call)

\* lines 132-156, with g what get_agent did
Answer(user_query, selected_agent, g, co, go, call) ==
    IF g.raised
    THEN Effects(g, <<>>, [call EXCEPT !.outcome = "raised"])
    ELSE IF ~Truthy(g.agent)
    THEN Effects(g, << <<user_query.v, <<FailedToInitialize, Format(selected_agent)>> >> >>,
                 [call EXCEPT !.agent = g.agent, !.outcome = "returned"])
    ELSE Retrieve(user_query, g, CapabilityCall(g.agent, co), go,
                  [call EXCEPT !.agent = g.agent, !.cap = Capability(g.agent),
                               !.capOut = CapabilityCall(g.agent, co),
                               !.steps = @ \o <<Capability(g.agent)>>])

\* lines 126-156
Handle(user_query, agent_choice, selected_agent, g, bo, co, go) ==
    Answer(user_query, selected_agent, g, co, go,
           [NoCall EXCEPT !.op = "chat_handler", !.query = user_query,
                          !.choice = agent_choice,
                          !.selected = selected_agent, !.key = g.key,
                          !.hit = g.hit, !.builder = g.builder,
                          !.upload = g.upload,
                          !.buildOut = IF g.invoked THEN bo.k ELSE "-",
                          !.steps = (IF agent_choice = AutoDetect
                                     THEN <<"classify">> ELSE <<>>) \o g.steps])

Selected(user_query, agent_choice, uploaded_file, selected_agent, bo, co, go) ==
    Handle(user_query, agent_choice, selected_agent,
           get_agent(selected_agent, uploaded_file, bo), bo, co, go)

\* chat_handler(user_query, agent_choice, uploaded_file, chat_history), with what
\* the builder (bo), the agent's capability (co) and the generation service (go)
\* do if they are called
chat_handler(user_query, agent_choice, uploaded_file, bo, co, go) ==
    IF IsBlank(user_query)
    THEN Ignored([NoCall EXCEPT !.op = "chat_handler", !.query = user_query,
                                !.choice = agent_choice])
    ELSE Selected(user_query, agent_choice, uploaded_file,
                  SelectAgent(user_query, agent_choice), bo, co, go)

-----------------------------------------------------------------------------
(* The application: the Submit and Clear Chat events, app.py:233-249 *)

\* query texts: None, empty, blank, and one that matches no keyword
HandlerQueries == { None, Str(<<>>), Str(<<" ">>), Str(<<"h","i">>) }

\* config["data_gov"]["api_key"]: absent (null) or a key
Credentials == { None, Str(<<"key">>) }

\* config.get("llm_provider", "gemini"): the provider's name in some case, or
\* the name of another provider
Providers ==
    { Str(<<"g","e","m","i","n","i">>), Str(<<"G","e","m","i","n","i">>),
      Str(<<"o","p","e","n","a","i">>) }

\* config.get("google_api_key"): absent, empty, or a key
GeminiKeys == { None, Str(<<>>), Str(<<"gkey">>) }

\* LLM_PROVIDER.lower() == "gemini" and GEMINI_API_KEY
Configured(provider, key) ==
    lower(provider.v) = <<"g","e","m","i","n","i">> /\ Truthy(key)

Threads == 1..MaxThreads

\* a thread that is not inside get_agent
Idle == [pc |-> "idle", choice |-> "-", key |-> <<>>, agent |-> None,
         returned |-> None]

\* app.py imported with a valid configuration and serving, nothing asked yet
Init ==
    /\ agent_cache = <<>>
    /\ chat_history = <<>>
    /\ fs = <<>>
    /\ consumed = {}
    /\ builds = [k \in CacheKeys |-> 0]
    /\ last = NoCall
    /\ DATA_GOV_API_KEY \in Credentials
    /\ cq = <<>>
    /\ cres = NotClassified
    /\ LLM_PROVIDER = Str(<<"g","e","m","i","n","i">>)
    /\ GEMINI_API_KEY = Str(<<"gkey">>)
    /\ entry = "app"
    /\ status = "serving"
    /\ threads = [t \in Threads |-> Idle]

\* an outcome that is never looked at: the collaborator is not called
Unused == [k |-> "unused", caps |-> {}, v |-> <<>>, text |-> None, exc |-> "-"]

\* the builder's outcome is drawn only if get_agent calls a builder, and within
\* the bound on builder invocations
BuildDraw(user_query, agent_choice, uploaded_file, BO) ==
    IF IsBlank(user_query) THEN {Unused}
    ELSE IF Invoked(Format(SelectAgent(user_query, agent_choice)),
                    CacheKey(Format(SelectAgent(user_query, agent_choice)),
                             TempPath(uploaded_file)))
    THEN (IF TotalBuilds(builds) < MaxBuilds
          THEN (IF Len(chat_history) < MaxTurns THEN BO
                ELSE { bo \in BO : bo.k = "raise" })
          ELSE {})
    ELSE IF Len(chat_history) < MaxTurns THEN {Unused} ELSE {}

\* the capability's outcome is drawn only if the handler calls one the agent has
CapDraw(l, CO) ==
    IF l.cap # "-" /\ l.cap \in l.agent.caps THEN CO ELSE {Unused}

\* the service's outcome is drawn only if the handler calls gemini_answer
GenDraw(l, co, GO) ==
    IF l.cap # "-" /\ l.cap \in l.agent.caps /\ co.k = "return" THEN GO ELSE {Unused}

\* submit_btn.click / user_input.submit: chat_handler runs on the components'
\* values

Submit(Q, C, F, BO, CO, GO) ==
    \E user_query \in Q, agent_choice \in C, uploaded_file \in F :
    \E bo \in BuildDraw(user_query, agent_choice, uploaded_file, BO) :
    \E l \in {chat_handler(user_query, agent_choice, uploaded_file,
                            bo, Unused, Unused).last} :
    \E co \in CapDraw(l, CO) :
    \E go \in GenDraw(l, co, GO) :
    \E r \in {chat_handler(user_query, agent_choice, uploaded_file, bo, co, go)} :
        /\ Len(r.chat_history) <= MaxTurns
        /\ TotalBuilds(r.builds) <= MaxBuilds
        /\ agent_cache' = r.agent_cache
        /\ chat_history' = r.chat_history
        /\ fs' = r.fs
        /\ consumed' = r.consumed
        /\ builds' = r.builds
        /\ last' = r.last
        /\ UNCHANGED <<DATA_GOV_API_KEY, cq, cres, env>>

\* the last turn is dropped, the rest is kept
ClearChat_DropLast ==
    /\ chat_history' = SubSeq(chat_history, 1, Len(chat_history) - 1)
    /\ last' = [NoCall EXCEPT !.op = "clear", !.outcome = "returned",
                              !.dropped = Len(chat_history)]
    /\ UNCHANGED <<agent_cache, fs, consumed, builds, DATA_GOV_API_KEY, cq, cres, env>>

\* clear_btn.click: lambda: ([], "")
ClearChat ==
    /\ chat_history' = <<>>
    /\ last' = [NoCall EXCEPT !.op = "clear", !.outcome = "returned",
                              !.dropped = Len(chat_history)]
    /\ UNCHANGED <<agent_cache, fs, consumed, builds, DATA_GOV_API_KEY, cq, cres, env>>

\* a query text that Auto Detect routes to the KCC agent
KccQuery == Str(<<"K","C","C">>)

\* The agent cache: every choice of the dropdown, with and without an upload,
\* and every outcome of a builder; retrieval and generation succeed.
Next ==
    \/ Submit({KccQuery}, Choices, {NoFile, File(CHOOSE u \in Uploads : u.id = 1)},
              { bo \in BuildOutcomes : bo.k = "agent" => bo.caps = Capabilities },
              {[k |-> "return", v |-> <<"ctx1">>]},
              {[k |-> "return", text |-> Str(<<"answer">>)]})
    \/ ClearChat

Spec == Init /\ [][Next]_vars

\* Retrieval and synthesis: every query text, every capability shape and every
\* outcome of retrieval and generation, on the Auto Detect route.
NextChat ==
    \/ Submit(HandlerQueries, {AutoDetect}, {NoFile},
              { bo \in BuildOutcomes : bo.k \in {"agent", "None"} },
              CapOutcomes, GenOutcomes)
    \/ ClearChat

SpecChat == Init /\ [][NextChat]_vars

\* Uploaded datasets: no upload and two uploads that share a basename, for two
\* file-backed agents whose builders succeed or return nothing.
NextUpload ==
    \/ Submit({KccQuery}, {ClimateAgent, AgricultureAgent}, UploadedFiles,
              { bo \in BuildOutcomes :
                    bo.k = "None" \/ (bo.k = "agent" /\ bo.caps = Capabilities) },
              {[k |-> "return", v |-> <<"ctx1">>]},
              {[k |-> "return", text |-> Str(<<"answer">>)]})
    \/ ClearChat

SpecUpload == Init /\ [][NextUpload]_vars

\* The stages of a query: every query text, Auto Detect and an explicit
\* choice, no upload; the builder raises, returns None or returns an agent
\* that has run; the capability and the generation service return or raise.
NextStages ==
    \/ Submit(HandlerQueries, {AutoDetect, SchemeAgent}, {NoFile},
              { bo \in BuildOutcomes :
                    bo.k \in {"raise", "None"} \/ (bo.k = "agent" /\ "run" \in bo.caps) },
              {[k |-> "return", v |-> <<"ctx1">>], [k |-> "raise", v |-> <<"boom">>]},
              {[k |-> "return", text |-> Str(<<"answer">>)],
               [k |-> "raise", text |-> Str(<<"boom">>)]})
    \/ ClearChat

\* the data.gov key plays no part for these agents
InitStages == Init /\ Truthy(DATA_GOV_API_KEY)

SpecStages == InitStages /\ [][NextStages]_vars

\* Blank queries among others: every query text, Auto Detect and an explicit
\* choice, with and without an upload; builders, capabilities and the
\* generation service succeed.
NextBlank ==
    \/ Submit(HandlerQueries, {AutoDetect, SchemeAgent},
              {NoFile, File(CHOOSE u \in Uploads : u.id = 1)},
              { bo \in BuildOutcomes : bo.k = "agent" /\ bo.caps = Capabilities },
              {[k |-> "return", v |-> <<"ctx1">>]},
              {[k |-> "return", text |-> Str(<<"answer">>)]})
    \/ ClearChat

SpecBlank == InitStages /\ [][NextBlank]_vars

-----------------------------------------------------------------------------
(* The Streamlit entry point, main_app.py.  The script runs from the top on
   every interaction; st.session_state.chat_history is the conversation
   (chat_history) and st.cache_resource memoizes get_agent on its arguments
   (agent_cache). *)

\* the memo's key: the arguments of get_agent
MainCacheKey(agent_choice, api_key, uploaded_file) ==
    <<agent_choice,
      <<"memo">> \o (IF api_key.t = "str" THEN api_key.v ELSE <<"None">>)
                \o (IF uploaded_file.t = "file" THEN uploaded_file.name ELSE <<"None">>)>>

MainCacheKeys ==
    { MainCacheKey(a, k, f) : a \in ConcreteAgents, k \in Credentials, f \in UploadedFiles }

\* main_app.py:78-82: None, or data/<the upload's name>
MainTempPath(uploaded_file) ==
    IF uploaded_file.t = "file"
    THEN Str(<<"data">> \o uploaded_file.name) ELSE None

\* main_app.py:81-84, run only when the memo has no entry for the arguments
MainStaged(uploaded_file, temp_path, cache_key) ==
    IF uploaded_file.t = "file" /\ cache_key \notin DOMAIN agent_cache
    THEN [p \in DOMAIN fs \cup {temp_path.v} |->
            IF p = temp_path.v THEN read(uploaded_file) ELSE fs[p]]
    ELSE fs

MainConsumed(uploaded_file, cache_key) ==
    IF uploaded_file.t = "file" /\ cache_key \notin DOMAIN agent_cache
    THEN consumed \cup {uploaded_file.id} ELSE consumed

\* main_app.py:87-98: whether the body runs and calls a builder
MainInvoked(choice, api_key, cache_key) ==
    /\ cache_key \notin DOMAIN agent_cache
    /\ \/ choice \in FileBacked
       \/ choice = KCCAgent /\ Truthy(api_key)

\* main_app.py:87-103: the memoized value, else what the body returns
MainResolve(choice, cache_key, invoked, arg, files, bo) ==
    IF cache_key \in DOMAIN agent_cache THEN agent_cache[cache_key]
    ELSE IF invoked /\ bo.k # "raise" THEN BuiltAgent(choice, arg, files, bo)
    ELSE None

\* st.cache_resource: whatever the body returns is memoized, None included; an
\* exception is not
MainMemoize(cache_key, agent) ==
    [k \in DOMAIN agent_cache \cup {cache_key} |->
        IF k = cache_key THEN agent ELSE agent_cache[k]]

MainLookup(choice, cache_key, invoked, agent, raised, staged, files, read_to) ==
    [raised |-> raised, agent |-> agent, key |-> cache_key, upload |-> staged,
     hit |-> cache_key \in DOMAIN agent_cache,
     invoked |-> invoked, builder |-> IF invoked THEN choice ELSE "-",
     agent_cache |-> IF raised \/ cache_key \in DOMAIN agent_cache
                     THEN agent_cache ELSE MainMemoize(cache_key, agent),
     fs |-> files, consumed |-> read_to,
     builds |-> IF invoked THEN [builds EXCEPT ![cache_key] = @ + 1] ELSE builds,
     steps |-> <<"lookup">>
               \o (IF staged # 0 /\ cache_key \notin DOMAIN agent_cache
                   THEN <<"stage">> ELSE <<>>)
               \o (IF invoked THEN <<"build">> ELSE <<>>)
               \o (IF ~raised /\ cache_key \notin DOMAIN agent_cache
                   THEN <<"store">> ELSE <<>>)]

MainBuilt(choice, temp_path, cache_key, invoked, files, uploaded_file, bo) ==
    MainLookup(choice, cache_key, invoked,
               MainResolve(choice, cache_key, invoked, BuilderArg(choice, temp_path),
                           files, bo),
               invoked /\ bo.k = "raise",
               IF uploaded_file.t = "file" THEN uploaded_file.id ELSE 0,
               files, MainConsumed(uploaded_file, cache_key))

MainKeyed(choice, api_key, temp_path, cache_key, uploaded_file, bo) ==
    MainBuilt(choice, temp_path, cache_key, MainInvoked(choice, api_key, cache_key),
              MainStaged(uploaded_file, temp_path, cache_key), uploaded_file, bo)

\* main_app.py:75-103: get_agent(agent_choice, api_key, uploaded_file)
main_get_agent(agent_choice, api_key, uploaded_file, bo) ==
    MainKeyed(agent_choice, api_key, MainTempPath(uploaded_file),
              MainCacheKey(agent_choice, api_key, uploaded_file), uploaded_file, bo)

\* main_app.py:126-146
main_gemini_answer(prompt, context, go) ==
    IF go.k = "raise" THEN <<ErrorMarker>> \o go.text.v
    ELSE IF Truthy(go.text) THEN go.text.v
    ELSE NoResponse

\* an attribute access and call: out if the agent has the method, else the
\* AttributeError of the access
MainCall(qa_agent, method, out) ==
    IF method \in qa_agent.caps THEN out
    ELSE [k |-> "raise", exc |-> "AttributeError",
          v |-> <<"object has no attribute ", method>>]

\* main_app.py:203-206
MainSynthesize(user_query, g, out, go, call) ==
    Effects(g, << <<user_query.v, main_gemini_answer(user_query.v, out.v, go)>> >>,
            [call EXCEPT !.capOut = out, !.genCalls = 1, !.genCtx = Str(out.v),
                         !.genOut = go, !.outcome = "returned",
                         !.steps = @ \o <<"generate">>])

\* main_app.py:200: run's result is the context; its exception leaves the script
MainFallback(user_query, g, second, go, call) ==
    IF second.k = "return"
    THEN MainSynthesize(user_query, g, second, go, call)
    ELSE Effects(g, <<>>, [call EXCEPT !.capOut = second, !.outcome = "raised"])

\* main_app.py:196-200: try retrieve_context; on an AttributeError, run; any
\* other exception leaves the script
MainRetrieve(user_query, g, first, ro, go, call) ==
    IF first.k = "return"
    THEN MainSynthesize(user_query, g, first, go, call)
    ELSE IF first.exc = "AttributeError"
    THEN MainFallback(user_query, g, MainCall(g.agent, "run", ro), go,
                      [call EXCEPT !.cap = "run",
                                   !.steps = @ \o (IF "run" \in g.agent.caps
                                                   THEN <<"run">> ELSE <<>>)])
    ELSE Effects(g, <<>>, [call EXCEPT !.capOut = first, !.outcome = "raised"])

\* main_app.py:189-206, with g what get_agent did
MainAnswer(user_query, g, co, ro, go, call) ==
    IF g.raised
    THEN Effects(g, <<>>, [call EXCEPT !.outcome = "raised"])
    ELSE IF ~Truthy(g.agent)
    THEN Effects(g, <<>>, [call EXCEPT !.agent = g.agent, !.outcome = "stopped"])
    ELSE MainRetrieve(user_query, g, MainCall(g.agent, "retrieve_context", co), ro, go,
                      [call EXCEPT !.agent = g.agent, !.cap = "retrieve_context",
                                   !.steps = @ \o (IF "retrieve_context" \in g.agent.caps
                                                   THEN <<"retrieve_context">>
                                                   ELSE <<>>)])

MainHandle(user_query, agent_choice, selected_agent, g, bo, co, ro, go) ==
    MainAnswer(user_query, g, co, ro, go,
               [NoCall EXCEPT !.op = "main_submit", !.query = user_query,
                              !.selected = selected_agent, !.key = g.key,
                              !.hit = g.hit, !.builder = g.builder,
                              !.upload = g.upload,
                              !.buildOut = IF g.invoked THEN bo.k ELSE "-",
                              !.steps = (IF agent_choice = AutoDetect
                                         THEN <<"classify">> ELSE <<>>) \o g.steps])

\* main_app.py:180-182
MainSelectAgent(user_query, agent_choice) ==
    IF agent_choice = AutoDetect THEN main_auto_select_agent(user_query.v)
    ELSE Label(agent_choice)

\* main_app.py:184-206: st.stop() when nothing was selected
MainSelected(user_query, agent_choice, uploaded_file, selected_agent, bo, co, ro, go) ==
    IF ~Truthy(selected_agent)
    THEN [chat_history |-> chat_history, agent_cache |-> agent_cache, fs |-> fs,
          consumed |-> consumed, builds |-> builds,
          last |-> [NoCall EXCEPT !.op = "main_submit", !.query = user_query,
                                  !.selected = selected_agent,
                                  !.steps = IF agent_choice = AutoDetect
                                            THEN <<"classify">> ELSE <<>>,
                                  !.outcome = "stopped"]]
    ELSE MainHandle(user_query, agent_choice, selected_agent,
                    main_get_agent(selected_agent.v, DATA_GOV_API_KEY, uploaded_file, bo),
                    bo, co, ro, go)

\* main_app.py:177-210: the Submit button's block, which runs only with a
\* non-empty query
main_submit(user_query, agent_choice, uploaded_file, bo, co, ro, go) ==
    IF ~Truthy(user_query)
    THEN [chat_history |-> chat_history, agent_cache |-> agent_cache, fs |-> fs,
          consumed |-> consumed, builds |-> builds,
          last |-> [NoCall EXCEPT !.op = "main_submit", !.query = user_query,
                                  !.outcome = "skipped"]]
    ELSE MainSelected(user_query, agent_choice, uploaded_file,
                      MainSelectAgent(user_query, agent_choice), bo, co, ro, go)

\* what retrieve_context or run may do: return a context, or raise an
\* AttributeError from inside its body, or raise another exception
RetrievalOutcomes ==
    { [k |-> "return", exc |-> "-", v |-> <<"ctx1">>] }
    \cup { [k |-> "raise", exc |-> e, v |-> <<"boom">>] :
              e \in {"AttributeError", "ValueError"} }

\* the text box's values: empty, blank, without a keyword, with a keyword
MainQueries ==
    { Str(<<>>), Str(<<" ">>), Str(<<"h","i">>), Str(<<"R","a","i","n">>) }

MainBuildDraw(user_query, agent_choice, uploaded_file, BO) ==
    IF ~Truthy(user_query) \/ ~Truthy(MainSelectAgent(user_query, agent_choice))
    THEN {Unused}
    ELSE IF MainInvoked(MainSelectAgent(user_query, agent_choice).v, DATA_GOV_API_KEY,
                        MainCacheKey(MainSelectAgent(user_query, agent_choice).v,
                                     DATA_GOV_API_KEY, uploaded_file))
    THEN (IF TotalBuilds(builds) < MaxBuilds THEN BO ELSE {})
    ELSE {Unused}

\* the Submit button of main_app.py
MainSubmit(Q, C, F, BO, CO, RO, GO) ==
    \E user_query \in Q, agent_choice \in C, uploaded_file \in F :
    \E bo \in MainBuildDraw(user_query, agent_choice, uploaded_file, BO) :
    \E l1 \in {main_submit(user_query, agent_choice, uploaded_file,
                            bo, Unused, Unused, Unused).last} :
    \E co \in (IF l1.agent.t = "agent" /\ "retrieve_context" \in l1.agent.caps
               THEN CO ELSE {Unused}) :
    \E l2 \in {main_submit(user_query, agent_choice, uploaded_file,
                            bo, co, Unused, Unused).last} :
    \E ro \in (IF l2.cap = "run" /\ "run" \in l2.agent.caps THEN RO ELSE {Unused}) :
    \E l3 \in {main_submit(user_query, agent_choice, uploaded_file,
                            bo, co, ro, Unused).last} :
    \E go \in (IF l3.genCalls = 1 THEN GO ELSE {Unused}) :
    \E r \in {main_submit(user_query, agent_choice, uploaded_file, bo, co, ro, go)} :
        /\ Len(r.chat_history) <= MaxTurns
        /\ TotalBuilds(r.builds) <= MaxBuilds
        /\ agent_cache' = r.agent_cache
        /\ chat_history' = r.chat_history
        /\ fs' = r.fs
        /\ consumed' = r.consumed
        /\ builds' = r.builds
        /\ last' = r.last
        /\ UNCHANGED <<DATA_GOV_API_KEY, cq, cres, env>>

\* main_app.py:173-175: st.session_state.chat_history = [], then a rerun
MainClearChat ==
    /\ chat_history' = <<>>
    /\ last' = [NoCall EXCEPT !.op = "clear", !.outcome = "returned",
                              !.dropped = Len(chat_history)]
    /\ UNCHANGED <<agent_cache, fs, consumed, builds, DATA_GOV_API_KEY, cq, cres, env>>

-----------------------------------------------------------------------------
(* Startup of the two entry points *)

\* app.py:30-34 raises ValueError at import when Gemini is not configured;
\* main_app.py:31-37 shows an error in the sidebar and goes on
Configure ==
    /\ status = "starting"
    /\ status' = IF entry = "app" /\ ~Configured(LLM_PROVIDER, GEMINI_API_KEY)
                 THEN "halted" ELSE "serving"
    /\ UNCHANGED <<agent_cache, chat_history, fs, consumed, builds, last,
                   DATA_GOV_API_KEY, cq, cres, LLM_PROVIDER, GEMINI_API_KEY,
                   entry, threads>>

\* either script is started with any configuration
InitEntry ==
    /\ agent_cache = <<>>
    /\ chat_history = <<>>
    /\ fs = <<>>
    /\ consumed = {}
    /\ builds = [k \in CacheKeys \cup MainCacheKeys |-> 0]
    /\ last = NoCall
    /\ DATA_GOV_API_KEY = Str(<<"key">>)
    /\ cq = <<>>
    /\ cres = NotClassified
    /\ LLM_PROVIDER \in Providers
    /\ GEMINI_API_KEY \in GeminiKeys
    /\ entry \in {"app", "main"}
    /\ status = "starting"
    /\ threads = [t \in Threads |-> Idle]

\* builders that return an agent (with any of the capabilities) or nothing
EntryBuildOutcomes == { bo \in BuildOutcomes : bo.k \in {"agent", "None"} }

\* the generation service returns a text or raises
EntryGenOutcomes ==
    { [k |-> "return", text |-> Str(<<"answer">>)],
      [k |-> "raise", text |-> Str(<<"boom">>)] }

\* the handlers of app.py exist once the module was imported
GradioSubmit ==
    /\ entry = "app" /\ status = "serving"
    /\ Submit(HandlerQueries, {AutoDetect}, {NoFile},
              EntryBuildOutcomes, RetrievalOutcomes, EntryGenOutcomes)

GradioClearChat ==
    /\ entry = "app" /\ status = "serving"
    /\ ClearChat

\* the widgets of main_app.py are drawn below the configuration block
StreamlitSubmit ==
    /\ entry = "main" /\ status = "serving"
    /\ MainSubmit(MainQueries, {AutoDetect}, {NoFile},
                  EntryBuildOutcomes, RetrievalOutcomes, RetrievalOutcomes,
                  EntryGenOutcomes)

StreamlitClearChat ==
    /\ entry = "main" /\ status = "serving"
    /\ MainClearChat

NextEntry ==
    \/ Configure
    \/ GradioSubmit
    \/ GradioClearChat
    \/ StreamlitSubmit
    \/ StreamlitClearChat

SpecEntry == InitEntry /\ [][NextEntry]_vars

-----------------------------------------------------------------------------
(* get_agent called from several worker threads, app.py:40-72.  The handlers
   run in worker threads and share agent_cache, which no lock protects; a
   thread may be pre-empted between the lookup, the builder call and the
   store. *)

\* the labels the racing calls ask for
RaceChoices == {ClimateAgent, KCCAgent}

\* lines 44-53: a thread enters get_agent without an upload and forms its key
Enter(t) ==
    /\ threads[t].pc = "idle"
    /\ \E agent_choice \in RaceChoices :
          threads' = [threads EXCEPT ![t] =
              [pc |-> "lookup", choice |-> agent_choice,
               key |-> CacheKey(agent_choice, TempPath(NoFile)),
               agent |-> None, returned |-> None]]
    /\ UNCHANGED <<agent_cache, chat_history, fs, consumed, builds, last,
                   DATA_GOV_API_KEY, cq, cres, LLM_PROVIDER, GEMINI_API_KEY,
                   entry, status>>

\* lines 55-56: the cached instance is returned; on a miss the thread goes on
\* to its builder, or to line 69 with None when no builder is called
CacheCheck(t) ==
    /\ threads[t].pc = "lookup"
    /\ threads' = [threads EXCEPT ![t] =
          IF threads[t].key \in DOMAIN agent_cache
          THEN [@ EXCEPT !.pc = "idle", !.returned = agent_cache[threads[t].key]]
          ELSE IF Invoked(threads[t].choice, threads[t].key)
          THEN [@ EXCEPT !.pc = "build"]
          ELSE [@ EXCEPT !.pc = "store"]]
    /\ UNCHANGED <<agent_cache, chat_history, fs, consumed, builds, last,
                   DATA_GOV_API_KEY, cq, cres, LLM_PROVIDER, GEMINI_API_KEY,
                   entry, status>>

\* lines 58-65: the builder runs and returns a new agent instance
BuildAgent(t) ==
    /\ threads[t].pc = "build"
    /\ TotalBuilds(builds) < MaxBuilds
    /\ \E bo \in { b \in BuildOutcomes : b.k = "agent" /\ b.caps = Capabilities } :
          threads' = [threads EXCEPT ![t] =
              [@ EXCEPT !.pc = "store",
                        !.agent = BuiltAgent(threads[t].choice,
                                             BuilderArg(threads[t].choice, None),
                                             fs, bo)]]
    /\ builds' = [builds EXCEPT ![threads[t].key] = @ + 1]
    /\ UNCHANGED <<agent_cache, chat_history, fs, consumed, last,
                   DATA_GOV_API_KEY, cq, cres, LLM_PROVIDER, GEMINI_API_KEY,
                   entry, status>>

\* lines 69-72: a truthy agent is stored under the key, and returned
StoreAndReturn(t) ==
    /\ threads[t].pc = "store"
    /\ agent_cache' = Store(threads[t].key, threads[t].agent)
    /\ threads' = [threads EXCEPT ![t] =
          [@ EXCEPT !.pc = "idle", !.returned = threads[t].agent]]
    /\ UNCHANGED <<chat_history, fs, consumed, builds, last,
                   DATA_GOV_API_KEY, cq, cres, LLM_PROVIDER, GEMINI_API_KEY,
                   entry, status>>

NextRace ==
    \E t \in Threads :
        \/ Enter(t)
        \/ CacheCheck(t)
        \/ BuildAgent(t)
        \/ StoreAndReturn(t)

SpecRace == Init /\ [][NextRace]_vars

-----------------------------------------------------------------------------
(* The classifiers applied to every query text of the harness *)

InitClassify ==
    /\ agent_cache = <<>>
    /\ chat_history = <<>>
    /\ fs = <<>>
    /\ consumed = {}
    /\ builds = [k \in CacheKeys |-> 0]
    /\ last = NoCall
    /\ DATA_GOV_API_KEY = None
    /\ cq \in ClassifierQueries
    /\ cres = NotClassified
    /\ LLM_PROVIDER = Str(<<"g","e","m","i","n","i">>)
    /\ GEMINI_API_KEY = Str(<<"gkey">>)
    /\ entry = "app"
    /\ status = "serving"
    /\ threads = [t \in Threads |-> Idle]

Classify ==
    /\ ~cres.done
    /\ cres' = [app |-> auto_select_agent(cq), main |-> main_auto_select_agent(cq),
                done |-> TRUE]
    /\ UNCHANGED <<agent_cache, chat_history, fs, consumed, builds, last,
                   DATA_GOV_API_KEY, cq, env>>

NextClassify == Classify

SpecClassify == InitClassify /\ [][NextClassify]_vars

-----------------------------------------------------------------------------
(* Properties *)

IsCall(l) == l.op = "chat_handler"
BuildFailed(l) == IsCall(l) /\ l.buildOut \in {"raise", "None", "Empty"}

\* C1: once a key holds an agent, every later get_agent for that key returns
\* that very instance and invokes no builder: the entry never changes, the
\* key's builder count never grows again, and a call that finds the key
\* returns the cached instance.
C1_CachedInstanceReused ==
    [][\A k \in DOMAIN agent_cache :
          /\ k \in DOMAIN agent_cache'
          /\ agent_cache'[k] = agent_cache[k]
          /\ builds'[k] = builds[k]
          /\ (IsCall(last') /\ last'.key = k) =>
                /\ last'.outcome = "returned"
                /\ last'.hit
                /\ last'.builder = "-"
                /\ last'.agent = agent_cache[k]]_vars

\* C1 witness: a call found the key of a staged dataset in the cache, whose
\* builder ran once
C1_Witness ==
    /\ IsCall(last) /\ last.hit /\ last.outcome = "returned"
    /\ last.key[2] = DataPath("a.csv")
    /\ last.agent.t = "agent"
    /\ builds[last.key] = 1

\* C2: the cache never holds a failed or empty entry; after a get_agent whose
\* builder raised or returned None or an empty object the key is not in the
\* cache; and the next call with that key invokes the builder again.
C2_FailuresNotCached ==
    [][/\ \A k \in DOMAIN agent_cache' : agent_cache'[k].t = "agent"
       /\ BuildFailed(last') => last'.key \notin DOMAIN agent_cache'
       /\ (BuildFailed(last) /\ IsCall(last') /\ last'.key = last.key) =>
             /\ last'.builder # "-"
             /\ builds'[last.key] = builds[last.key] + 1]_vars

\* C2 witness: the builder of a key failed twice in a row (a None result, then
\* an empty one or an exception), and the key is not cached
C2_Witness ==
    /\ BuildFailed(last)
    /\ builds[last.key] = 2
    /\ last.key \notin DOMAIN agent_cache

\* C3 (as claimed): when the builder raises, chat_handler returns and one turn
\* (query, error text) is appended.
C3_BuilderFailureAbsorbed ==
    [][(IsCall(last') /\ last'.buildOut = "raise") =>
          /\ last'.outcome = "returned"
          /\ Len(chat_history') = Len(chat_history) + 1
          /\ SubSeq(chat_history', 1, Len(chat_history)) = chat_history
          /\ chat_history'[Len(chat_history')][1] = last'.query.v]_vars

\* C4: an exception of the agent's retrieve_context or run is caught: the call
\* returns, exactly one turn is appended, and its answer is the retrieval-error
\* text followed by the exception's message.
C4_RetrievalErrorAbsorbed ==
    [][(IsCall(last') /\ last'.cap # "-" /\ last'.capOut.k = "raise") =>
          /\ last'.outcome = "returned"
          /\ chat_history' = Append(chat_history,
                <<last'.query.v, <<ErrorRetrieving>> \o last'.capOut.v>>)]_vars

\* C4 witness: run raised with a message, on a conversation that had a turn
C4_Witness ==
    /\ IsCall(last) /\ last.cap = "run" /\ "run" \in last.agent.caps
    /\ last.capOut = [k |-> "raise", v |-> <<"boom">>]
    /\ Len(chat_history) = 2

\* C5: when the generation service raises, gemini_answer returns a text that
\* begins with the failure marker, the call returns, and exactly one turn with
\* that text is appended.
C5_GenerationErrorRecorded ==
    [][(IsCall(last') /\ last'.genCalls = 1 /\ last'.genOut.k = "raise") =>
          /\ last'.outcome = "returned"
          /\ Len(last'.answer.v) >= 1
          /\ last'.answer.v[1] = ErrorMarker
          /\ Tail(last'.answer.v) = last'.genOut.text.v
          /\ chat_history' = Append(chat_history, <<last'.query.v, last'.answer.v>>)
          /\ Len(chat_history') = Len(chat_history) + 1]_vars

\* C5 witness: the service raised with an empty message
C5_Witness ==
    /\ IsCall(last) /\ last.genCalls = 1
    /\ last.genOut = [k |-> "raise", text |-> Str(<<>>)]
    /\ Len(chat_history) = 1

\* C6: every turn of the conversation has a non-empty answer.
C6_NoBlankAnswer ==
    \A i \in 1..Len(chat_history) : Len(chat_history[i][2]) > 0

\* C6 witness: the service returned "" and then None, and both turns hold the
\* fixed message
C6_Witness ==
    /\ Len(chat_history) = 2
    /\ IsCall(last) /\ last.genCalls = 1
    /\ last.genOut = [k |-> "return", text |-> None]
    /\ chat_history[1][2] = NoResponse
    /\ chat_history[2][2] = NoResponse

HasKeyword(q, words) == AnyIn(lower(q), words)

\* C7: auto_select_agent returns one of the four concrete labels, and the
\* Agriculture label when no keyword of any domain occurs in the query.
C7_ClassifierTotal ==
    cres.done =>
        /\ cres.app.t = "label"
        /\ cres.app.v \in ConcreteAgents
        /\ ~HasKeyword(cq, ClimateWords \cup AgricultureWords
                           \cup SchemeWords \cup HelplineWords)
              => cres.app.v = AgricultureAgent

\* C7 witness: a non-empty query without any keyword was classified
C7_Witness ==
    /\ cres.done
    /\ Len(cq) > 2
    /\ ~HasKeyword(cq, ClimateWords \cup AgricultureWords
                       \cup SchemeWords \cup HelplineWords)

\* the domain the first-match order climate, agriculture, scheme, helpline gives
FirstMatch(q) ==
    CASE HasKeyword(q, ClimateWords) -> Label(ClimateAgent)
      [] ~HasKeyword(q, ClimateWords) /\ HasKeyword(q, AgricultureWords) ->
            Label(AgricultureAgent)
      [] ~HasKeyword(q, ClimateWords \cup AgricultureWords)
         /\ HasKeyword(q, SchemeWords) -> Label(SchemeAgent)
      [] ~HasKeyword(q, ClimateWords \cup AgricultureWords \cup SchemeWords)
         /\ HasKeyword(q, HelplineWords) -> Label(KCCAgent)
      [] OTHER -> None

\* C8: both classifiers apply first-match-wins in the order climate,
\* agriculture, scheme, helpline; Helpline is chosen only for a query with a
\* helpline keyword and no keyword of the three earlier domains.
C8_FirstMatchWins ==
    cres.done =>
        /\ FirstMatch(cq) # None => (cres.app = FirstMatch(cq) /\ cres.main = FirstMatch(cq))
        /\ \A r \in {cres.app, cres.main} :
              r = Label(KCCAgent) =>
                 /\ HasKeyword(cq, HelplineWords)
                 /\ ~HasKeyword(cq, ClimateWords \cup AgricultureWords \cup SchemeWords)

\* C8 witness: a query with a helpline keyword before a climate keyword
C8_Witness ==
    /\ cres.done
    /\ cq = <<"K","c","c","R","a","i","n">>
    /\ cres.app = Label(ClimateAgent)

\* C9: the context given to gemini_answer is what retrieve_context returned
\* when the agent has retrieve_context (with or without run), and what run
\* returned when the agent has only run.
C9_ContextByCapability ==
    (IsCall(last) /\ last.genCalls = 1) =>
        /\ "retrieve_context" \in last.agent.caps => last.cap = "retrieve_context"
        /\ last.agent.caps = {"run"} => last.cap = "run"
        /\ last.capOut.k = "return"
        /\ last.genCtx = Str(last.capOut.v)
        /\ last.steps[Len(last.steps) - 2] = last.cap

\* C9 witness: an agent with both capabilities answered from retrieve_context
C9_Witness ==
    /\ IsCall(last) /\ last.genCalls = 1
    /\ last.agent.caps = Capabilities
    /\ last.genCtx = Str(<<"ctx2">>)

\* C10: a query resolved to the KCC agent without the data.gov key ends in a
\* recorded failure: no builder is invoked, the cache is unchanged, the call
\* returns, and exactly one turn with the initialization-failure text is
\* appended.
C10_MissingCredentialRecorded ==
    [][(IsCall(last') /\ last'.selected = Label(KCCAgent) /\ ~Truthy(DATA_GOV_API_KEY)) =>
          /\ last'.builder = "-"
          /\ builds' = builds
          /\ agent_cache' = agent_cache
          /\ last'.outcome = "returned"
          /\ chat_history' = Append(chat_history,
                <<last'.query.v, <<FailedToInitialize, KCCAgent>> >>)]_vars

\* C10 witness: Auto Detect routed a query to the KCC agent without the key
C10_Witness ==
    /\ IsCall(last) /\ last.selected = Label(KCCAgent)
    /\ last.steps[1] = "classify"
    /\ ~Truthy(DATA_GOV_API_KEY)
    /\ Len(chat_history) = 2

\* C11 (as claimed): a get_agent call with an uploaded file that finds its key
\* in the cache only returns the cached instance: no builder is invoked, the
\* upload is not staged again, and the data/ directory, the upload's read
\* position and the cache are left as they were.
C11_HitHasNoSideEffect ==
    [][(IsCall(last') /\ last'.hit /\ last'.key[2] # <<"default">>) =>
          /\ last'.builder = "-"
          /\ \A i \in 1..Len(last'.steps) : last'.steps[i] # "stage"
          /\ fs' = fs
          /\ consumed' = consumed
          /\ agent_cache' = agent_cache]_vars

\* C13: no key of agent_cache has a domain part outside the four concrete
\* labels, no builder was ever invoked under such a key, and every get_agent
\* call of chat_handler is made with a concrete label.
C13_AutoDetectNeverKeyed ==
    /\ \A k \in DOMAIN agent_cache : k[1] \in ConcreteAgents
    /\ \A k \in DOMAIN builds : k[1] \notin ConcreteAgents => builds[k] = 0
    /\ (IsCall(last) /\ last.key # <<>>) =>
          /\ last.selected.t = "label"
          /\ last.selected.v \in ConcreteAgents
          /\ last.key[1] = last.selected.v

\* C13 witness: a query submitted under Auto Detect was classified, and the
\* agent built for it was stored under its concrete label
C13_Witness ==
    /\ IsCall(last) /\ Len(last.steps) > 0 /\ last.steps[1] = "classify"
    /\ last.builder # "-"
    /\ last.key \in DOMAIN agent_cache

\* C14 (as claimed): every chat_handler call with a non-empty query that
\* returns leaves the earlier turns as they were and appends one turn with the
\* submitted query.
C14_NonEmptyQueryAppends ==
    [][(IsCall(last') /\ Truthy(last'.query) /\ last'.outcome = "returned") =>
          /\ Len(chat_history') = Len(chat_history) + 1
          /\ SubSeq(chat_history', 1, Len(chat_history)) = chat_history
          /\ chat_history'[Len(chat_history')][1] = last'.query.v]_vars

\* C14 (amended): every chat_handler call with a query that is not None, not
\* empty and not whitespace-only, and that returns, leaves the earlier turns
\* as they were, in order, and appends exactly one turn with the submitted
\* query; a whitespace-only query appends nothing.
C14_AppendOnly ==
    [][/\ (IsCall(last') /\ ~IsBlank(last'.query) /\ last'.outcome = "returned") =>
             /\ Len(chat_history') = Len(chat_history) + 1
             /\ SubSeq(chat_history', 1, Len(chat_history)) = chat_history
             /\ chat_history'[Len(chat_history')][1] = last'.query.v
       /\ (IsCall(last') /\ IsBlank(last'.query)) => chat_history' = chat_history]_vars

\* C14 witness: a second turn, different from the first, was appended
C14_Witness ==
    /\ IsCall(last) /\ ~IsBlank(last.query) /\ last.outcome = "returned"
    /\ Len(chat_history) = 2
    /\ chat_history[1] # chat_history[2]
    /\ chat_history[2] = <<last.query.v, last.answer.v>>

\* C19 (as claimed): the content at a staged path from which a cached agent was
\* built never changes under a later get_agent call, and staging an upload
\* that was already read once leaves at its path the content of that upload.
C19_StagedContentImmutable ==
    [][/\ \A k \in DOMAIN agent_cache :
             agent_cache[k].arg \in DOMAIN fs =>
                /\ agent_cache[k].arg \in DOMAIN fs'
                /\ fs'[agent_cache[k].arg] = fs[agent_cache[k].arg]
       /\ \A u \in Uploads :
             (IsCall(last') /\ last'.upload = u.id /\ u.id \in consumed) =>
                fs'[last'.key[2]] = u.content]_vars

\* C20: when an agent built from one upload's content is cached for a domain
\* and get_agent is called for that domain with another upload whose name has
\* the same last component, the call uses the same cache key, hits, invokes no
\* builder and returns the instance built from the first upload's content,
\* while the staged file now holds the second upload's content.
C20_BasenameIsCacheIdentity ==
    [][\A u1 \in Uploads, u2 \in Uploads, d \in FileBacked :
          (/\ u1.id # u2.id
           /\ u1.name[Len(u1.name)] = u2.name[Len(u2.name)]
           /\ CacheKey(d, TempPath(File(u1))) \in DOMAIN agent_cache
           /\ agent_cache[CacheKey(d, TempPath(File(u1)))].data = u1.content
           /\ IsCall(last') /\ last'.selected = Label(d)
           /\ last'.upload = u2.id /\ u2.id \notin consumed) =>
             /\ last'.key = CacheKey(d, TempPath(File(u1)))
             /\ last'.hit
             /\ last'.builder = "-"
             /\ builds' = builds
             /\ last'.agent = agent_cache[CacheKey(d, TempPath(File(u1)))]
             /\ last'.agent.data = u1.content
             /\ fs'[last'.key[2]] = u2.content]_vars

\* C20 witness: the second upload hit the agent built from the first upload's
\* rows, and data/a.csv holds the second upload's rows
C20_Witness ==
    /\ IsCall(last) /\ last.hit /\ last.upload = 2
    /\ last.agent.t = "agent" /\ last.agent.data = "rows1"
    /\ fs[DataPath("a.csv")] = "rows2"
    /\ builds[last.key] = 1

\* C12 (as claimed): when get_agent is called from several threads, at most
\* one build executes for a key, and the callers that got an agent for the
\* same key got the same instance.
C12_OneBuildPerKey ==
    /\ \A k \in DOMAIN builds : builds[k] <= 1
    /\ \A t1 \in Threads, t2 \in Threads :
          (/\ threads[t1].pc = "idle" /\ threads[t2].pc = "idle"
           /\ threads[t1].key = threads[t2].key
           /\ Truthy(threads[t1].returned) /\ Truthy(threads[t2].returned)) =>
              threads[t1].returned = threads[t2].returned

\* C15: clearing the conversation yields the empty transcript in both entry
\* points, whatever was appended before; clearing an empty conversation leaves
\* it empty.
C15_ClearYieldsEmpty ==
    [][last'.op = "clear" =>
          /\ chat_history' = <<>>
          /\ last'.dropped = Len(chat_history)]_vars

\* C15 witness: the Streamlit conversation was cleared when it held two turns
C15_Witness ==
    /\ entry = "main"
    /\ last.op = "clear" /\ last.dropped >= 2
    /\ chat_history = <<>>

\* C16 (as claimed): when Gemini is not configured (no key, or another
\* provider), no query is classified, no agent is built and no turn is
\* recorded, in either entry point.
C16_HaltsWithoutCredential ==
    ~Configured(LLM_PROVIDER, GEMINI_API_KEY) =>
        /\ last.steps = <<>>
        /\ TotalBuilds(builds) = 0
        /\ chat_history = <<>>

\* C17 (as claimed): in main_app.py an Auto Detect query without any domain
\* keyword is resolved to the Agriculture label and an answer is recorded.
C17_StreamlitFallsBack ==
    (/\ last.op = "main_submit" /\ Truthy(last.query)
     /\ ~HasKeyword(last.query.v, ClimateWords \cup AgricultureWords
                                  \cup SchemeWords \cup HelplineWords)) =>
        /\ last.selected = Label(AgricultureAgent)
        /\ last.outcome # "stopped"

\* C18 (as claimed): in both handlers, an agent that exposes retrieve_context
\* is never asked to run, whether retrieve_context returns or raises.
C18_RetrieveContextExclusive ==
    (/\ last.op \in {"chat_handler", "main_submit"}
     /\ last.agent.t = "agent"
     /\ "retrieve_context" \in last.agent.caps) =>
        \A i \in 1..Len(last.steps) : last.steps[i] # "run"

\* the stage of the query lifecycle a step belongs to: classify, resolve the
\* agent, retrieve the context, synthesize, record
StageOf(step) ==
    CASE step = "classify" -> 1
      [] step \in {"stage", "lookup", "build", "store"} -> 2
      [] step \in Capabilities -> 3
      [] step = "generate" -> 4
      [] step = "append" -> 5

Count(steps, S) == Cardinality({ i \in 1..Len(steps) : steps[i] \in S })

\* C21: the steps of one chat_handler query run in the order classify (exactly
\* when the choice is Auto Detect), resolve agent, retrieve context,
\* synthesize, record; the generation service is invoked at most once, and
\* only after get_agent returned a truthy agent and the capability call
\* returned; it is not invoked when the agent failed to initialize or the
\* retrieval raised.
C21_StagesInOrder ==
    (IsCall(last) /\ ~IsBlank(last.query)) =>
        /\ \A i \in 1..(Len(last.steps) - 1) :
              StageOf(last.steps[i]) <= StageOf(last.steps[i + 1])
        /\ Count(last.steps, {"classify"}) = (IF last.choice = AutoDetect THEN 1 ELSE 0)
        /\ Count(last.steps, {"lookup"}) = 1
        /\ Count(last.steps, Capabilities) <= 1
        /\ Count(last.steps, {"append"}) <= 1
        /\ last.genCalls <= 1
        /\ Count(last.steps, {"generate"}) = last.genCalls
        /\ last.genCalls = 1 =>
              /\ last.buildOut # "raise"
              /\ Truthy(last.agent)
              /\ Count(last.steps, Capabilities) = 1
              /\ last.cap # "-" /\ last.capOut.k = "return"
              /\ SubSeq(last.steps, Len(last.steps) - 2, Len(last.steps))
                    = <<last.cap, "generate", "append">>
        /\ (last.outcome = "raised" \/ ~Truthy(last.agent)) => last.genCalls = 0
        /\ (last.cap # "-" /\ last.capOut.k = "raise") => last.genCalls = 0

\* C21 witness: a query under Auto Detect went through every stage
C21_Witness ==
    /\ IsCall(last)
    /\ last.steps = <<"classify", "lookup", "build", "store", "run", "generate", "append">>
    /\ last.genOut.k = "raise"

\* a query that is None, empty or made of spaces only
NoText(q) == ~Truthy(q) \/ \A i \in 1..Len(q.v) : q.v[i] = " "

\* C22: a chat_handler call with a None, empty or whitespace-only query
\* returns and changes nothing: the conversation, agent_cache, the data/
\* directory, the upload's read position and the builder counts are as before,
\* and no classifier, builder, capability or generation call is made.
C22_BlankQueryIsNoOp ==
    [][(IsCall(last') /\ NoText(last'.query)) =>
          /\ last'.outcome = "returned"
          /\ chat_history' = chat_history
          /\ agent_cache' = agent_cache
          /\ fs' = fs
          /\ consumed' = consumed
          /\ builds' = builds
          /\ last'.steps = <<>>
          /\ last'.selected = None
          /\ last'.builder = "-"
          /\ last'.cap = "-"
          /\ last'.genCalls = 0]_vars

\* C22 witness: a whitespace-only query under Auto Detect, submitted when the
\* conversation, the cache and the data/ directory were not empty
C22_Witness ==
    /\ IsCall(last) /\ last.query = Str(<<" ">>) /\ last.choice = AutoDetect
    /\ Len(chat_history) = 2
    /\ DOMAIN agent_cache # {}
    /\ DOMAIN fs # {}

=============================================================================
